---- MODULE Spec2Model ----
(***************************************************************************)
(* dayflow-sync: the 4 AM day boundary, the per-day sync loop and the      *)
(* created_at round trip through the written note.                         *)
(*                                                                         *)
(* Instants are whole local hours since an epoch midnight; a dayString is  *)
(* the number of the calendar date (days since the same epoch).  A note is *)
(* its text: a sequence of lines, each line a sequence of string tokens.   *)
(***************************************************************************)
EXTENDS Integers, Sequences, FiniteSets, TLC

VARIABLES now, db, notes, pc, status, FORCE, DAYS,
          dates, idx, savedCount, updatedCount, skippedCount,
          last, origin, runs, probe

vars == <<now, db, notes, pc, status, FORCE, DAYS,
          dates, idx, savedCount, updatedCount, skippedCount,
          last, origin, runs, probe>>

(* ------------------------------ bounds --------------------------------- *)
\* Hours the clock may run past its first instant.
MaxElapsed == 2
\* Largest --days value a run is started with.
MaxDays == 2
\* Number of runs of the tool in one behaviour.
MaxRuns == 2
\* Largest instant and dayString handed to the date functions on their own.
MaxInstant == 80
MaxProbeDay == 3
\* Largest --days value handed to calculateDateRange on its own.
MaxLookback == 4
\* Longest card list handed to the aggregation functions and to the decision
\* of one day on their own.
MaxCards == 2
\* Longest card list whose total is compared with that of its reorderings.
MaxShuffle == 3

(* ------------------------- program constants --------------------------- *)
HoursPerDay == 24
BoundaryHour == 4

null == "null"
NoNote == <<>>

(* ---------------------------- Date functions --------------------------- *)
\* new Date(dayString + 'T04:00:00'): local 04:00 on the calendar date.
ParseDay4AM(dayString) == dayString * HoursPerDay + BoundaryHour

\* date-fns format(date, 'yyyy-MM-dd'): the calendar date of an instant.
format(date) == date \div HoursPerDay

addDays(date, n) == date + n * HoursPerDay

\* The days are counted forward from the reference instant.
subDaysForward(date, n) == date + n * HoursPerDay

subDays(date, n) == date - n * HoursPerDay

\* date.setHours(4, 0, 0, 0) on a copy of date.
setHours4(date) == format(date) * HoursPerDay + BoundaryHour

\* Date.prototype.toISOString as written into the frontmatter.
toISOString(date) == ToString(date)

\* The boundary instant itself is not yet past.
isDayCompleteLate(dayString, clock) ==
    LET dayDate == ParseDay4AM(dayString)
        nextDay4AM == addDays(dayDate, 1)
    IN  clock > nextDay4AM

isDayComplete(dayString, clock) ==
    LET dayDate == ParseDay4AM(dayString)
        nextDay4AM == addDays(dayDate, 1)
    IN  clock >= nextDay4AM

\* 04:00 itself still belongs to the previous day.
getDayInfoExclusive(date) ==
    LET fourAMToday == setHours4(date)
    IN  IF date <= fourAMToday
        THEN LET startOfDay == subDays(fourAMToday, 1)
             IN  [dayString |-> format(startOfDay),
                  startOfDay |-> startOfDay,
                  endOfDay |-> fourAMToday]
        ELSE [dayString |-> format(fourAMToday),
              startOfDay |-> fourAMToday,
              endOfDay |-> addDays(fourAMToday, 1)]

\* The day still ends at 04:00 of the date of the instant.
getDayInfoSameEnd(date) ==
    LET fourAMToday == setHours4(date)
    IN  IF date < fourAMToday
        THEN LET startOfDay == subDays(fourAMToday, 1)
             IN  [dayString |-> format(startOfDay),
                  startOfDay |-> startOfDay,
                  endOfDay |-> fourAMToday]
        ELSE [dayString |-> format(fourAMToday),
              startOfDay |-> fourAMToday,
              endOfDay |-> fourAMToday]

getDayInfoFor4AMBoundary(date) ==
    LET fourAMToday == setHours4(date)
    IN  IF date < fourAMToday
        THEN LET startOfDay == subDays(fourAMToday, 1)
             IN  [dayString |-> format(startOfDay),
                  startOfDay |-> startOfDay,
                  endOfDay |-> fourAMToday]
        ELSE [dayString |-> format(fourAMToday),
              startOfDay |-> fourAMToday,
              endOfDay |-> addDays(fourAMToday, 1)]

includes(seq, x) == \E i \in 1..Len(seq) : seq[i] = x

RECURSIVE dateRangeLoop(_, _, _, _)
dateRangeLoop(i, days, ref, acc) ==
    IF i >= days THEN acc
    ELSE LET date == subDays(ref, i)
             dayInfo == getDayInfoFor4AMBoundary(date)
         IN  dateRangeLoop(i + 1, days, ref,
                 IF includes(acc, dayInfo.dayString)
                 THEN acc ELSE Append(acc, dayInfo.dayString))

calculateDateRange(days, ref) == dateRangeLoop(0, days, ref, <<>>)


(* ------------------------ the upstream database ------------------------ *)
\* The metadata column of a card: no text at all, a text JSON.parse rejects,
\* or a JSON object, held as the value JSON.parse gives for it.  An
\* application slot that is missing or empty is "".
NoMetadata ==
    [kind |-> "absent", primary |-> "", secondary |-> "", distractions |-> <<>>]
BadMetadata ==
    [kind |-> "garbage", primary |-> "", secondary |-> "", distractions |-> <<>>]
JsonMetadata(primary, secondary, distractions) ==
    [kind |-> "json", primary |-> primary, secondary |-> secondary,
     distractions |-> distractions]

\* A text is a sequence of tokens; <<>> is the absent (null) value.
CardWork ==
    [category |-> <<"Work">>, title |-> <<"Coding">>, subcategory |-> <<>>,
     start_ts |-> 0, end_ts |-> 90, is_deleted |-> 0, metadata |-> NoMetadata]

\* A card whose category label itself contains the text "created_at: 1999".
CardLabel ==
    [category |-> <<"created_at:", "1999">>, title |-> <<"Notes">>,
     subcategory |-> <<>>, start_ts |-> 100, end_ts |-> 1900, is_deleted |-> 0,
     metadata |-> NoMetadata]

\* A card Dayflow wrote for a batch it could not process.
CardFailed ==
    [category |-> <<"System">>, title |-> <<"Processing failed">>,
     subcategory |-> <<"Error">>, start_ts |-> 0, end_ts |-> 60, is_deleted |-> 0,
     metadata |-> NoMetadata]

JournalDone == [status |-> "complete"]

\* The rows of one day: timeline_cards ordered by start_ts, and the rows of
\* journal_entries for the day (at most one).
DayEmpty == [cards |-> <<>>, journal |-> <<>>]
DayJournal == [cards |-> <<>>, journal |-> <<JournalDone>>]
DayWork == [cards |-> <<CardWork>>, journal |-> <<>>]
DayLabel == [cards |-> <<CardLabel>>, journal |-> <<>>]
DayFailed == [cards |-> <<CardFailed>>, journal |-> <<>>]

DayRows == {DayEmpty, DayJournal, DayWork, DayLabel, DayFailed}

\* First instant of the clock: 03:00 on calendar date 2, the last hour of
\* logical day 1.
StartNow == 2 * HoursPerDay + BoundaryHour - 1
MaxNow == StartNow + MaxElapsed

\* The days Dayflow has recorded: from the logical day of the first instant
\* on.  Earlier days have no rows in either table and no note.
Dates == getDayInfoFor4AMBoundary(StartNow).dayString
         .. getDayInfoFor4AMBoundary(MaxNow).dayString

rowsOf(database, dayString) ==
    IF dayString \in DOMAIN database THEN database[dayString] ELSE DayEmpty

INCLUDE_DELETED == FALSE

\* The handle allows writes and a statement empties the tables.
afterSelectWipes(database) == [d \in DOMAIN database |-> DayEmpty]

\* The database after a SELECT on the handle openDatabase returns, which is
\* opened with { readonly: true }.
afterSelect(database) == database

fetchTimelineCardsForDay(database, dayString, includeDeleted) ==
    LET keep(card) == includeDeleted \/ card.is_deleted = 0
    IN  SelectSeq(rowsOf(database, dayString).cards, keep)

\* db.prepare(query).get(dayString): the first row, <<>> for undefined.
fetchJournalEntryForDay(database, dayString) == rowsOf(database, dayString).journal

(* ----------------------- Data processing functions --------------------- *)
\* The fraction of a minute is dropped.
calculateDurationTruncated(startTs, endTs) == (endTs - startTs) \div 60

\* Math.round((endTs - startTs) / 60): halves round up.
calculateDuration(startTs, endTs) == (2 * (endTs - startTs) + 60) \div 120

\* The reduction starts from the first card instead of from 0.
RECURSIVE calculateTotalMinutesButFirst(_)
calculateTotalMinutesButFirst(cards) ==
    IF Len(cards) <= 1 THEN 0
    ELSE calculateTotalMinutesButFirst(SubSeq(cards, 1, Len(cards) - 1))
         + calculateDuration(cards[Len(cards)].start_ts, cards[Len(cards)].end_ts)

RECURSIVE calculateTotalMinutes(_)
calculateTotalMinutes(cards) ==
    IF cards = <<>> THEN 0
    ELSE calculateTotalMinutes(SubSeq(cards, 1, Len(cards) - 1))
         + calculateDuration(cards[Len(cards)].start_ts, cards[Len(cards)].end_ts)

RECURSIVE extractCategories(_)
extractCategories(cards) ==
    IF cards = <<>> THEN <<>>
    ELSE LET front == extractCategories(SubSeq(cards, 1, Len(cards) - 1))
             cat == cards[Len(cards)].category
         IN  IF cat # <<>> /\ ~includes(front, cat) THEN Append(front, cat) ELSE front

\* Only the title tells a failed card.
isFailedByTitle(card) ==
    /\ card.category = <<"System">>
    /\ \/ includes(card.title, "Processing failed")
       \/ includes(card.title, "Error")

\* The failed-processing filter of the sync loop.
isFailed(card) ==
    /\ card.category = <<"System">>
    /\ \/ includes(card.title, "Processing failed")
       \/ includes(card.title, "Error")
       \/ card.subcategory = <<"Error">>

\* The parse error is not caught.
parseMetadataUncaught(metadataJson) ==
    [distractions |-> metadataJson.distractions,
     appSites |-> [primary |-> metadataJson.primary,
                   secondary |-> metadataJson.secondary],
     thrown |-> metadataJson.kind = "garbage"]

\* thrown: an exception leaves the function; the try/catch lets none out.
parseMetadata(metadataJson) ==
    IF metadataJson.kind = "absent"
    THEN [distractions |-> <<>>, appSites |-> [primary |-> "", secondary |-> ""],
          thrown |-> FALSE]
    ELSE IF metadataJson.kind = "garbage"
    THEN [distractions |-> <<>>, appSites |-> [primary |-> "", secondary |-> ""],
          thrown |-> FALSE]
    ELSE [distractions |-> metadataJson.distractions,
          appSites |-> [primary |-> metadataJson.primary,
                        secondary |-> metadataJson.secondary],
          thrown |-> FALSE]

\* [primary, secondary].filter(Boolean)
appsOf(card) ==
    LET metadata == parseMetadata(card.metadata)
        keep(app) == app # ""
    IN  SelectSeq(<<metadata.appSites.primary, metadata.appSites.secondary>>, keep)

\* appStats is a plain object ({}).  A name that Object.prototype already
\* holds reads back as that inherited member, and the keys that are array
\* indices are enumerated first, in ascending order, whenever written.
PrototypeNames == {"constructor"}
IndexNames == <<"7">>

\* if (!appStats[app]) { appStats[app] = {...} }; sessions += 1;
\* totalMinutes += duration.  For an inherited name the test finds the
\* inherited member and the two updates land on it, not on appStats.
addSession(appStats, app, duration) ==
    IF app \in PrototypeNames THEN appStats
    ELSE IF \E i \in 1..Len(appStats) : appStats[i].app = app
    THEN [i \in 1..Len(appStats) |->
            IF appStats[i].app = app
            THEN [app |-> app, sessions |-> appStats[i].sessions + 1,
                  totalMinutes |-> appStats[i].totalMinutes + duration]
            ELSE appStats[i]]
    ELSE Append(appStats, [app |-> app, sessions |-> 1, totalMinutes |-> duration])

\* cards.forEach(...): the own properties of appStats in creation order.
RECURSIVE collectAppStats(_)
collectAppStats(cards) ==
    IF cards = <<>> THEN <<>>
    ELSE LET front == collectAppStats(SubSeq(cards, 1, Len(cards) - 1))
             card == cards[Len(cards)]
             duration == calculateDuration(card.start_ts, card.end_ts)
             apps == appsOf(card)
         IN  IF Len(apps) = 0 THEN front
             ELSE IF Len(apps) = 1 THEN addSession(front, apps[1], duration)
             ELSE addSession(addSession(front, apps[1], duration), apps[2], duration)

\* Object.entries: array-index keys in ascending order, then the other keys
\* in creation order.
RECURSIVE indexEntries(_, _)
indexEntries(appStats, k) ==
    IF k > Len(IndexNames) THEN <<>>
    ELSE LET named(e) == e.app = IndexNames[k]
         IN  SelectSeq(appStats, named) \o indexEntries(appStats, k + 1)

objectEntries(appStats) ==
    LET other(e) == ~includes(IndexNames, e.app)
    IN  indexEntries(appStats, 1) \o SelectSeq(appStats, other)

\* Array.prototype.sort with (a, b) => b.totalMinutes - a.totalMinutes: a
\* stable sort, larger totals first.
RECURSIVE sortByTotalMinutes(_)
sortByTotalMinutes(entries) ==
    IF entries = <<>> THEN <<>>
    ELSE LET sorted == sortByTotalMinutes(SubSeq(entries, 1, Len(entries) - 1))
             e == entries[Len(entries)]
             k == Cardinality({i \in 1..Len(sorted) :
                                 sorted[i].totalMinutes >= e.totalMinutes})
         IN  SubSeq(sorted, 1, k) \o <<e>> \o SubSeq(sorted, k + 1, Len(sorted))

aggregateAppUsage(cards) == sortByTotalMinutes(objectEntries(collectAppStats(cards)))

RECURSIVE extractAllDistractions(_)
extractAllDistractions(cards) ==
    IF cards = <<>> THEN <<>>
    ELSE extractAllDistractions(SubSeq(cards, 1, Len(cards) - 1))
         \o parseMetadata(cards[Len(cards)].metadata).distractions

\* An exception leaves the rendering of the note.
renderThrows(cards) ==
    \E i \in 1..Len(cards) : parseMetadata(cards[i].metadata).thrown

(* ------------------------- Markdown generation ------------------------- *)
toLowerCase(token) ==
    CASE token = "Work" -> "work"
      [] token = "System" -> "system"
      [] OTHER -> token

lowerText(text) == [i \in 1..Len(text) |-> toLowerCase(text[i])]

\* yaml.dump of a list: one "- item" line per element, "[]" when empty.
dumpList(key, items) ==
    IF items = <<>> THEN << <<key, "[]">> >>
    ELSE << <<key>> >> \o [i \in 1..Len(items) |-> <<"-">> \o items[i]]

\* The frontmatter always stamps created_at with the clock.
generateFrontmatterFresh(dayString, cards, journal, existingCreatedAt, clock) ==
    LET categories == extractCategories(cards)
    IN  << <<"---">>,
           <<"dayflow_day:", ToString(dayString)>>,
           <<"day_boundary:", "4am">>,
           <<"total_cards:", ToString(Len(cards))>>,
           <<"total_minutes:", ToString(calculateTotalMinutes(cards))>> >>
        \o dumpList("categories:", categories)
        \o << <<"has_journal:", IF journal # <<>> THEN "true" ELSE "false">>,
              <<"journal_status:", IF journal # <<>> THEN journal[1].status ELSE null>>,
              <<"created_at:", toISOString(clock)>>,
              <<"updated_at:", toISOString(clock)>> >>
        \o dumpList("tags:", <<<<"dayflow">>, <<"timeline">>>>
                              \o [i \in 1..Len(categories) |-> lowerText(categories[i])])
        \o << <<"---">> >>

generateFrontmatter(dayString, cards, journal, existingCreatedAt, clock) ==
    LET categories == extractCategories(cards)
    IN  << <<"---">>,
           <<"dayflow_day:", ToString(dayString)>>,
           <<"day_boundary:", "4am">>,
           <<"total_cards:", ToString(Len(cards))>>,
           <<"total_minutes:", ToString(calculateTotalMinutes(cards))>> >>
        \o dumpList("categories:", categories)
        \o << <<"has_journal:", IF journal # <<>> THEN "true" ELSE "false">>,
              <<"journal_status:", IF journal # <<>> THEN journal[1].status ELSE null>>,
              <<"created_at:", IF existingCreatedAt # null
                               THEN existingCreatedAt ELSE toISOString(clock)>>,
              <<"updated_at:", toISOString(clock)>> >>
        \o dumpList("tags:", <<<<"dayflow">>, <<"timeline">>>>
                              \o [i \in 1..Len(categories) |-> lowerText(categories[i])])
        \o << <<"---">> >>

\* categoryCounts is a plain object ({}), keyed by the category label.
\* categoryCounts[cat] = (categoryCounts[cat] || 0) + duration: for a label
\* Object.prototype already holds, the first read finds the inherited
\* function, and function + number is a string (numeric is FALSE from then
\* on: string + number is a string again).
addCategory(categoryCounts, cat, duration) ==
    IF \E i \in 1..Len(categoryCounts) : categoryCounts[i].cat = cat
    THEN [i \in 1..Len(categoryCounts) |->
            IF categoryCounts[i].cat = cat /\ categoryCounts[i].numeric
            THEN [cat |-> cat, mins |-> categoryCounts[i].mins + duration,
                  numeric |-> TRUE]
            ELSE categoryCounts[i]]
    ELSE IF \E name \in PrototypeNames : cat = <<name>>
    THEN Append(categoryCounts, [cat |-> cat, mins |-> 0, numeric |-> FALSE])
    ELSE Append(categoryCounts, [cat |-> cat, mins |-> duration, numeric |-> TRUE])

\* cards.forEach(...): the own properties of categoryCounts in creation
\* order; a card without category goes under Uncategorized.
RECURSIVE collectCategoryCounts(_)
collectCategoryCounts(cards) ==
    IF cards = <<>> THEN <<>>
    ELSE LET card == cards[Len(cards)]
             cat == IF card.category # <<>> THEN card.category
                    ELSE <<"Uncategorized">>
         IN  addCategory(collectCategoryCounts(SubSeq(cards, 1, Len(cards) - 1)),
                         cat, calculateDuration(card.start_ts, card.end_ts))

\* Object.entries(categoryCounts): array-index keys in ascending order, then
\* the other keys in creation order.
RECURSIVE indexCategories(_, _)
indexCategories(categoryCounts, k) ==
    IF k > Len(IndexNames) THEN <<>>
    ELSE LET named(e) == e.cat = <<IndexNames[k]>>
         IN  SelectSeq(categoryCounts, named) \o indexCategories(categoryCounts, k + 1)

categoryEntries(categoryCounts) ==
    LET other(e) == \A k \in 1..Len(IndexNames) : e.cat # <<IndexNames[k]>>
    IN  indexCategories(categoryCounts, 1) \o SelectSeq(categoryCounts, other)

\* The pairs <<mins, total>> with total up to 300 for which the double
\* (mins / total) * 100 falls just below the exact half it stands for
\* (23 / 40 * 100 is 57.49999999999999), so that Math.round goes down.
HalfLost ==
    {<<23, 40>>, <<46, 80>>, <<69, 120>>, <<92, 160>>, <<29, 200>>,
     <<57, 200>>, <<113, 200>>, <<115, 200>>, <<138, 240>>, <<161, 280>>}

\* String(Math.round((mins / totalCategoryMinutes) * 100)) for mins >= 0 and
\* totalCategoryMinutes >= 0.
percentOf(entry, totalCategoryMinutes) ==
    IF ~entry.numeric THEN "NaN"
    ELSE IF totalCategoryMinutes = 0
    THEN (IF entry.mins = 0 THEN "NaN" ELSE "Infinity")
    ELSE LET halfUp == (200 * entry.mins + totalCategoryMinutes)
                         \div (2 * totalCategoryMinutes)
         IN  ToString(IF <<entry.mins, totalCategoryMinutes>> \in HalfLost
                      THEN halfUp - 1 ELSE halfUp)

\* The category breakdown generateDailySummary prints: label, minutes and
\* percentage of each category, in the order of Object.entries.
categoryPercentages(cards) ==
    LET entries == categoryEntries(collectCategoryCounts(cards))
        totalCategoryMinutes == calculateTotalMinutes(cards)
    IN  [i \in 1..Len(entries) |->
            [cat |-> entries[i].cat, mins |-> entries[i].mins,
             numeric |-> entries[i].numeric,
             pct |-> percentOf(entries[i], totalCategoryMinutes)]]

\* .join(', ') of `${cat} (${pct}%)`
RECURSIVE joinCategories(_)
joinCategories(entries) ==
    IF entries = <<>> THEN <<>>
    ELSE joinCategories(SubSeq(entries, 1, Len(entries) - 1))
         \o entries[Len(entries)].cat \o <<"(" \o entries[Len(entries)].pct \o "%)">>

generateDailySummary(cards, dayString) ==
    << <<"#", "Dayflow:", ToString(dayString)>>,
       <<"Total", ToString(calculateTotalMinutes(cards))>>,
       <<"Categories">>
         \o (IF cards = <<>> THEN <<"None">>
             ELSE joinCategories(categoryPercentages(cards))),
       <<"Cards", ToString(Len(cards))>> >>

generateTimelineSection(cards) ==
    IF cards = <<>> THEN << <<"Timeline", "none">> >>
    ELSE [i \in 1..Len(cards) |->
            <<"###">>
            \o (IF cards[i].category # <<>> THEN cards[i].category
                ELSE <<"Uncategorized">>)
            \o <<"**">> \o cards[i].title
            \o (IF appsOf(cards[i]) # <<>> THEN <<"Apps">> \o appsOf(cards[i])
                ELSE <<>>)
            \o <<"Duration",
                 ToString(calculateDuration(cards[i].start_ts, cards[i].end_ts))>>]

generateDistractionsSection(cards) ==
    LET allDistractions == extractAllDistractions(cards)
    IN  IF allDistractions = <<>> THEN << <<"Distractions", "none">> >>
        ELSE << <<"Distractions">> >>
             \o [i \in 1..Len(allDistractions) |-> <<"-", allDistractions[i].title>>]

generateAppUsageSection(cards) ==
    LET appUsage == aggregateAppUsage(cards)
    IN  IF appUsage = <<>> THEN << <<"AppUsage", "none">> >>
        ELSE << <<"AppUsage">> >>
             \o [i \in 1..Len(appUsage) |->
                    <<"-", appUsage[i].app, ToString(appUsage[i].sessions),
                      ToString(appUsage[i].totalMinutes)>>]

generateMarkdownNote(dayString, cards, journal, existingCreatedAt, clock) ==
    generateFrontmatter(dayString, cards, journal, existingCreatedAt, clock)
    \o generateDailySummary(cards, dayString)
    \o generateTimelineSection(cards)
    \o generateDistractionsSection(cards)
    \o generateAppUsageSection(cards)

(* ---------------------------- File operations -------------------------- *)
\* Every day is written to the same file.
generateFilenameFixed(dayString) == "Dayflow.md"

\* `Dayflow_${dayString}.md`
generateFilename(dayString) == "Dayflow_" \o ToString(dayString) \o ".md"

\* The output directory maps a dayString (the file Dayflow_<dayString>.md)
\* to the file's text; NoNote when the file does not exist.
readFile(dir, dayString) ==
    IF dayString \in DOMAIN dir THEN dir[dayString] ELSE NoNote

\* The existence check looks in the wrong place and finds nothing.
findExistingNoteNever(dir, dayString) == FALSE

findExistingNoteByDay(dir, dayString) == readFile(dir, dayString) # NoNote

\* Index of the first occurrence of the token in the line, 0 when absent.
indexOf(line, token) ==
    IF includes(line, token)
    THEN CHOOSE i \in 1..Len(line) :
            line[i] = token /\ \A j \in 1..(i - 1) : line[j] # token
    ELSE 0

\* content.match(/created_at:\s*['"]?([^'"\n]+)['"]?/): the regular
\* expression is not anchored, so the first "created_at:" followed by text
\* anywhere in the note matches; the capture is the text that follows.
matchCreatedAt(content) ==
    LET hit(n) == LET k == indexOf(content[n], "created_at:")
                  IN  k > 0 /\ k < Len(content[n])
    IN  IF \E n \in 1..Len(content) : hit(n)
        THEN LET n == CHOOSE m \in 1..Len(content) :
                          hit(m) /\ \A j \in 1..(m - 1) : ~hit(j)
             IN  content[n][indexOf(content[n], "created_at:") + 1]
        ELSE null

getExistingCreatedAt(dir, dayString) ==
    IF readFile(dir, dayString) = NoNote THEN null
    ELSE matchCreatedAt(readFile(dir, dayString))

(* ------------------------------ the state ------------------------------ *)
\* What the latest loop iteration of the running process saw and did: its day,
\* the clock, the output directory, the day's rows and the counters as they
\* were when it began, and the branch it took.
NoIteration ==
    [day |-> -1, force |-> FALSE, at |-> -1, decision |-> "none",
     fetched |-> FALSE, before |-> [d \in Dates |-> NoNote], rows |-> DayEmpty,
     saved |-> 0, updated |-> 0, skipped |-> 0]

NoProbe ==
    [op |-> "none", instant |-> 0, day |-> 0,
     info |-> [dayString |-> 0, startOfDay |-> 0, endOfDay |-> 0],
     complete |-> FALSE]

Init ==
    /\ now = StartNow
    /\ \E rows \in DayRows :
          db = [d \in Dates |-> IF d = getDayInfoFor4AMBoundary(StartNow).dayString
                                THEN rows ELSE DayEmpty]
    /\ notes = [d \in Dates |-> NoNote]
    /\ pc = "idle"
    /\ status = "none"
    /\ FORCE = FALSE
    /\ DAYS = 1
    /\ dates = <<>>
    /\ idx = 1
    /\ savedCount = 0
    /\ updatedCount = 0
    /\ skippedCount = 0
    /\ last = NoIteration
    /\ origin = [d \in Dates |-> null]
    /\ runs = 0
    /\ probe = NoProbe

runVars == <<pc, status, FORCE, DAYS, dates, idx,
             savedCount, updatedCount, skippedCount, last, runs>>

(* ---------------------------- the environment -------------------------- *)
\* The last run has ended: nothing reads the clock or the database again.
Halted == pc = "idle" /\ runs = MaxRuns

\* The wall clock advances (new Date() reads it).
Tick ==
    /\ ~Halted
    /\ now < MaxNow
    /\ now' = now + 1
    /\ UNCHANGED <<db, notes, origin, probe>>
    /\ UNCHANGED runVars

\* Dayflow itself rewrites the rows of the day it is recording, the logical
\* day of the current instant (it records, deletes and journals there).
UpstreamWrite ==
    /\ ~Halted
    /\ \E rows \in DayRows :
          LET d == getDayInfoFor4AMBoundary(now).dayString
          IN  /\ rows # db[d]
              /\ db' = [db EXCEPT ![d] = rows]
    /\ UNCHANGED <<now, notes, origin, probe>>
    /\ UNCHANGED runVars

(* --------------------------- syncDayflowData --------------------------- *)
\* From process start to the first loop iteration: options parsed, the
\* database opened read-only, the date range computed, counters zeroed.
StartRun ==
    /\ pc = "idle"
    /\ runs < MaxRuns
    /\ \E force \in BOOLEAN, days \in 1..MaxDays :
          /\ FORCE' = force
          /\ DAYS' = days
          /\ dates' = calculateDateRange(days, now)
    /\ pc' = "loop"
    /\ status' = "none"
    /\ idx' = 1
    /\ savedCount' = 0
    /\ updatedCount' = 0
    /\ skippedCount' = 0
    /\ runs' = runs + 1
    /\ last' = NoIteration
    /\ db' = afterSelect(db)
    /\ UNCHANGED <<now, notes, origin, probe>>

\* The skip test without the force flag.
skipCompleteDespiteForce(force, existingPath, dayComplete) ==
    existingPath /\ dayComplete

\* The skip test without the existence of the note.
skipCompleteWithoutNote(force, existingPath, dayComplete) ==
    ~force /\ dayComplete

\* if (!FORCE && existingPath && dayComplete)
skipComplete(force, existingPath, dayComplete) ==
    ~force /\ existingPath /\ dayComplete

\* The loop's decision for one day, with the text it writes (NoNote: none).
syncDay(dayString, force, dir, database, clock, fetchFails, writeFails) ==
    LET existingPath == findExistingNoteByDay(dir, dayString)
        dayComplete == isDayComplete(dayString, clock)
        allCards == fetchTimelineCardsForDay(database, dayString, INCLUDE_DELETED)
        keep(card) == ~isFailed(card)
        timelineCards == SelectSeq(allCards, keep)
        journalEntry == fetchJournalEntryForDay(database, dayString)
        existingCreatedAt == IF ~force /\ existingPath
                             THEN getExistingCreatedAt(dir, dayString) ELSE null
        markdown == generateMarkdownNote(dayString, timelineCards, journalEntry,
                                         existingCreatedAt, clock)
    IN  IF skipComplete(force, existingPath, dayComplete)
        THEN [decision |-> "skip-complete", fetched |-> FALSE, text |-> NoNote]
        ELSE IF fetchFails
        THEN [decision |-> "error", fetched |-> FALSE, text |-> NoNote]
        ELSE IF timelineCards = <<>> /\ journalEntry = <<>>
        THEN [decision |-> "skip-empty", fetched |-> TRUE, text |-> NoNote]
        ELSE IF renderThrows(timelineCards)
        THEN [decision |-> "error", fetched |-> TRUE, text |-> NoNote]
        ELSE IF writeFails
        THEN [decision |-> "fatal", fetched |-> TRUE, text |-> NoNote]
        ELSE IF existingPath
        THEN [decision |-> "update", fetched |-> TRUE, text |-> markdown]
        ELSE [decision |-> "create", fetched |-> TRUE, text |-> markdown]

\* The error of a day is logged and the day is not counted.
isSkippedUnlessError(decision) == decision \in {"skip-complete", "skip-empty"}

\* skippedCount++: the two skip branches and the catch block of the loop.
isSkipped(decision) == decision \in {"skip-complete", "skip-empty", "error"}

\* The failure of saveNote is left to the loop.
isFatalNever(decision) == FALSE

\* process.exit(1) in saveNote: the process ends inside the iteration.
isFatal(decision) == decision = "fatal"

\* One iteration of the for loop over dates.
ProcessDay ==
    /\ pc = "loop"
    /\ idx <= Len(dates)
    /\ \E fetchFails \in BOOLEAN, writeFails \in BOOLEAN :
          LET dayString == dates[idx]
              r == syncDay(dayString, FORCE, notes, db, now, fetchFails, writeFails)
          IN  /\ last' = [day |-> dayString, force |-> FORCE, at |-> now,
                          decision |-> r.decision, fetched |-> r.fetched,
                          before |-> notes, rows |-> rowsOf(db, dayString),
                          saved |-> savedCount, updated |-> updatedCount,
                          skipped |-> skippedCount]
              /\ notes' = IF r.text # NoNote
                          THEN [notes EXCEPT ![dayString] = r.text] ELSE notes
              /\ origin' = IF r.decision = "create" \/ (FORCE /\ r.text # NoNote)
                           THEN [origin EXCEPT ![dayString] = toISOString(now)]
                           ELSE origin
              /\ savedCount' = savedCount + (IF r.decision = "create" THEN 1 ELSE 0)
              /\ updatedCount' = updatedCount + (IF r.decision = "update" THEN 1 ELSE 0)
              /\ skippedCount' = skippedCount
                    + (IF isSkipped(r.decision) THEN 1 ELSE 0)
              /\ pc' = IF isFatal(r.decision) THEN "idle" ELSE pc
              /\ status' = IF isFatal(r.decision) THEN "failed" ELSE status
              /\ idx' = IF isFatal(r.decision) THEN idx ELSE idx + 1
              /\ db' = IF r.fetched THEN afterSelect(db) ELSE db
    /\ UNCHANGED <<now, FORCE, DAYS, dates, runs, probe>>

\* After the loop: the database is closed, the summary printed, and the
\* process ends; its variables are gone.
FinishRun ==
    /\ pc = "loop"
    /\ idx > Len(dates)
    /\ pc' = "idle"
    /\ status' = "ok"
    /\ FORCE' = FALSE
    /\ DAYS' = 1
    /\ dates' = <<>>
    /\ idx' = 1
    /\ savedCount' = 0
    /\ updatedCount' = 0
    /\ skippedCount' = 0
    /\ last' = NoIteration
    /\ UNCHANGED <<now, db, notes, origin, runs, probe>>

Next == Tick \/ UpstreamWrite \/ StartRun \/ ProcessDay \/ FinishRun

Spec == Init /\ [][Next]_vars

(* ------------------ the date functions on their own -------------------- *)
InitDay ==
    /\ now = StartNow
    /\ db = [d \in Dates |-> DayEmpty]
    /\ notes = [d \in Dates |-> NoNote]
    /\ pc = "idle"
    /\ status = "none"
    /\ FORCE = FALSE
    /\ DAYS = 1
    /\ dates = <<>>
    /\ idx = 1
    /\ savedCount = 0
    /\ updatedCount = 0
    /\ skippedCount = 0
    /\ last = NoIteration
    /\ origin = [d \in Dates |-> null]
    /\ runs = 0
    /\ probe = NoProbe

\* getDayInfoFor4AMBoundary applied to an instant.
CallGetDayInfo ==
    /\ \E t \in 0..MaxInstant :
          probe' = [NoProbe EXCEPT !.op = "getDayInfoFor4AMBoundary",
                                   !.instant = t,
                                   !.info = getDayInfoFor4AMBoundary(t)]
    /\ UNCHANGED <<now, db, notes, origin>>
    /\ UNCHANGED runVars

\* isDayComplete applied to a dayString while the clock reads an instant.
CallIsDayComplete ==
    /\ \E t \in 0..MaxInstant, d \in 0..MaxProbeDay :
          probe' = [NoProbe EXCEPT !.op = "isDayComplete",
                                   !.instant = t,
                                   !.day = d,
                                   !.complete = isDayComplete(d, t)]
    /\ UNCHANGED <<now, db, notes, origin>>
    /\ UNCHANGED runVars

\* calculateDateRange applied to a --days value while the clock reads an
\* instant.
CallCalculateDateRange ==
    /\ \E t \in 0..MaxInstant, days \in 1..MaxLookback :
          probe' = [op |-> "calculateDateRange", instant |-> t, days |-> days,
                    range |-> calculateDateRange(days, t)]
    /\ UNCHANGED <<now, db, notes, origin>>
    /\ UNCHANGED runVars

NextDay == CallGetDayInfo \/ CallIsDayComplete \/ CallCalculateDateRange

SpecDay == InitDay /\ [][NextDay]_vars

(* ------------- the data functions and one day on their own ------------- *)
\* The 04:00 boundary instant of calendar date D.
Boundary(D) == D * HoursPerDay + BoundaryHour


\* All sequences of at most n elements of S.
SeqsUpTo(S, n) == UNION {[1..k -> S] : k \in 0..n}

CardOf(category, title, subcategory, startTs, endTs, metadata) ==
    [category |-> category, title |-> title, subcategory |-> subcategory,
     start_ts |-> startTs, end_ts |-> endTs, is_deleted |-> 0,
     metadata |-> metadata]

\* Cards of 0, 29, 30, 90 and 150 seconds, and one that ends before it
\* starts.
DurationCards ==
    {CardOf(<<"Work">>, <<"Coding">>, <<>>, span[1], span[2], NoMetadata) :
        span \in {<<0, 0>>, <<0, 29>>, <<0, 30>>, <<0, 90>>, <<0, 150>>, <<100, 10>>}}

Chat == [title |-> "Chat"]

\* What the metadata of a card may hold: nothing, unparsable text, any pair
\* of application names, a distraction.
SlotNames == {"", "A", "B", "7", "constructor"}
MetadataValues ==
    {NoMetadata, BadMetadata, JsonMetadata("A", "", <<Chat>>)}
    \cup {JsonMetadata(a, b, <<>>) : a \in SlotNames, b \in SlotNames}

\* Cards of 30 and of 45 minutes with every such metadata.
AppCards ==
    {CardOf(<<"Work">>, <<"Coding">>, <<>>, 0, endTs, m) :
        endTs \in {30 * 60, 45 * 60}, m \in MetadataValues}

\* Cards on both sides of the failed-processing filter, and cards whose
\* metadata is unparsable or rich.
SyncCards ==
    {CardWork, CardFailed,
     CardOf(<<"System">>, <<"Error">>, <<>>, 0, 60, NoMetadata),
     CardOf(<<"System">>, <<"Update">>, <<"Error">>, 0, 60, NoMetadata),
     CardOf(<<"System">>, <<"Update">>, <<>>, 0, 60, NoMetadata),
     CardOf(<<"Work">>, <<"Error">>, <<"Error">>, 0, 60, NoMetadata),
     CardOf(<<"Work">>, <<"Coding">>, <<>>, 0, 30 * 60, BadMetadata),
     CardOf(<<"Work">>, <<"Coding">>, <<>>, 0, 45 * 60,
            JsonMetadata("A", "B", <<Chat>>))}

\* Cards of 0, 17 and 23 minutes without a category, with an ordinary one,
\* with one that is an array index and with one Object.prototype holds.
CategoryCards ==
    {CardOf(category, <<"Coding">>, <<>>, 0, minutes * 60, NoMetadata) :
        category \in {<<>>, <<"Work">>, <<"Play">>, <<"7">>, <<"constructor">>},
        minutes \in {0, 17, 23}}

\* The day one iteration is run for, and the note a previous run left.
ProbeDay == getDayInfoFor4AMBoundary(StartNow).dayString
PriorNote == generateMarkdownNote(ProbeDay, <<CardWork>>, <<>>, null, StartNow - 1)

\* Each behaviour makes one call, on arguments of its choice.
\* calculateTotalMinutes applied to a card list and to a reordering of it.
CallCalculateTotalMinutes ==
    /\ probe = NoProbe
    /\ \E cards \in SeqsUpTo(DurationCards, MaxShuffle) :
       \E p \in {f \in [1..Len(cards) -> 1..Len(cards)] :
                    \A i, j \in 1..Len(cards) : f[i] = f[j] => i = j} :
          LET shuffled == [i \in 1..Len(cards) |-> cards[p[i]]]
          IN  probe' = [op |-> "calculateTotalMinutes",
                        cards |-> cards, shuffled |-> shuffled,
                        total |-> calculateTotalMinutes(cards),
                        shuffledTotal |-> calculateTotalMinutes(shuffled)]
    /\ UNCHANGED <<now, db, notes, origin>>
    /\ UNCHANGED runVars

\* aggregateAppUsage and extractAllDistractions applied to a card list.
CallAggregate ==
    /\ probe = NoProbe
    /\ \E cards \in SeqsUpTo(AppCards, MaxCards) :
          probe' = [op |-> "aggregate", cards |-> cards,
                    usage |-> aggregateAppUsage(cards),
                    distractions |-> extractAllDistractions(cards),
                    total |-> calculateTotalMinutes(cards)]
    /\ UNCHANGED <<now, db, notes, origin>>
    /\ UNCHANGED runVars

\* One iteration of the loop for a day with the given rows, with or without
\* a note from a previous run, before or after the day is complete.
CallSyncDay ==
    /\ probe = NoProbe
    /\ \E cards \in SeqsUpTo(SyncCards, MaxCards),
          journal \in {<<>>, <<JournalDone>>},
          force \in BOOLEAN, existed \in BOOLEAN,
          clock \in {Boundary(ProbeDay + 1) - 1, Boundary(ProbeDay + 1)},
          fetchFails \in BOOLEAN, writeFails \in BOOLEAN :
          LET dir == [d \in {ProbeDay} |-> IF existed THEN PriorNote ELSE NoNote]
              database == [d \in {ProbeDay} |-> [cards |-> cards, journal |-> journal]]
          IN  probe' = [op |-> "syncDay", cards |-> cards, journal |-> journal,
                        force |-> force, existed |-> existed, clock |-> clock,
                        fetchFails |-> fetchFails, writeFails |-> writeFails,
                        result |-> syncDay(ProbeDay, force, dir, database, clock,
                                           fetchFails, writeFails)]
    /\ UNCHANGED <<now, db, notes, origin>>
    /\ UNCHANGED runVars

\* The category breakdown of generateDailySummary applied to a card list.
CallCategoryPercentages ==
    /\ probe = NoProbe
    /\ \E cards \in SeqsUpTo(CategoryCards, MaxCards) :
          probe' = [op |-> "categoryPercentages", cards |-> cards,
                    breakdown |-> categoryPercentages(cards),
                    summary |-> generateDailySummary(cards, ProbeDay)]
    /\ UNCHANGED <<now, db, notes, origin>>
    /\ UNCHANGED runVars

NextData ==
    \/ CallCalculateTotalMinutes
    \/ CallAggregate
    \/ CallSyncDay
    \/ CallCategoryPercentages

SpecData == InitDay /\ [][NextData]_vars

(* ======================= properties of the sync ======================== *)
\* The value of a top-level key of a note's frontmatter.
Field(text, key) ==
    LET n == CHOOSE m \in 1..Len(text) : text[m][1] = key
    IN  text[n][2]

CreatedAtOf(text) == Field(text, "created_at:")
UpdatedAtOf(text) == Field(text, "updated_at:")

Iterated == last.decision # "none"
Before == readFile(last.before, last.day)
After == readFile(notes, last.day)
Existed == Before # NoNote
CompleteThen == last.at >= Boundary(last.day + 1)
Written == last.decision \in {"create", "update"}

\* The rows of the iteration hold no qualifying card and no journal entry.
NoData ==
    /\ last.rows.journal = <<>>
    /\ \A i \in 1..Len(last.rows.cards) :
          last.rows.cards[i].is_deleted # 0 \/ isFailed(last.rows.cards[i])

OthersUntouched == \A d \in Dates : d # last.day => notes[d] = last.before[d]

CountedSkipped ==
    /\ skippedCount = last.skipped + 1
    /\ savedCount = last.saved
    /\ updatedCount = last.updated

\* C1: a day is skipped as complete (counted as skipped, nothing fetched,
\* nothing written) exactly when force is off, its note exists and the day is
\* complete at the instant of the iteration; under force a complete day with
\* a note is never skipped as complete and, having data (and the fetch and
\* the write succeeding), is updated.
C1_SkipCompleteIff ==
    Iterated =>
      /\ (last.decision = "skip-complete")
            <=> (~last.force /\ Existed /\ CompleteThen)
      /\ last.decision = "skip-complete"
            => CountedSkipped /\ ~last.fetched /\ notes = last.before
      /\ (last.force /\ Existed /\ CompleteThen /\ ~NoData)
            => last.decision \in {"update", "error", "fatal"}

C1_Witness ==
    /\ last.decision = "update"
    /\ last.force /\ Existed /\ CompleteThen

\* C2 as stated: with no qualifying card and no journal entry the decision
\* is skip-empty whatever force, the note's existence and completeness are.
C2_SkipEmptyAlways ==
    (Iterated /\ last.decision # "error" /\ NoData)
      => last.decision = "skip-empty" /\ notes = last.before

\* C2 amended: a day without data is skipped and nothing is written; it is
\* skip-complete when force is off, its note exists and the day is complete
\* (the rows are then not even fetched), and skip-empty otherwise.
C2_SkipEmptyUnlessComplete ==
    (Iterated /\ last.decision # "error" /\ NoData)
      => /\ notes = last.before
         /\ CountedSkipped
         /\ IF ~last.force /\ Existed /\ CompleteThen
            THEN last.decision = "skip-complete"
            ELSE last.decision = "skip-empty"

C2_Witness ==
    /\ last.decision = "skip-complete" /\ NoData
    /\ ~last.fetched /\ Existed /\ notes = last.before

\* C3 as stated: a non-forced update of an incomplete day keeps the note's
\* created_at; every note written under force carries the current instant.
C3_TimestampPreserved ==
    /\ (last.decision = "update" /\ ~last.force /\ ~CompleteThen)
         => CreatedAtOf(After) = CreatedAtOf(Before)
    /\ (Written /\ last.force)
         => CreatedAtOf(After) = toISOString(last.at)

\* C4 as stated: the created_at of a note is the instant the note was
\* created (origin; a forced regeneration, which the claim exempts, restarts
\* it).
C4_CreatedAtStable ==
    \A d \in Dates : notes[d] # NoNote => CreatedAtOf(notes[d]) = origin[d]

\* The note text with its two timestamp lines taken out.
sansStamps(text) ==
    LET keep(line) == line[1] \notin {"created_at:", "updated_at:"}
    IN  SelectSeq(text, keep)

QualifyingCards ==
    LET keep(card) == card.is_deleted = 0 /\ ~isFailed(card)
    IN  SelectSeq(last.rows.cards, keep)

\* The note found by the iteration was rendered from the very rows the
\* iteration reads: the source data are identical to the earlier run's.
SameSource ==
    /\ Existed
    /\ sansStamps(Before)
         = sansStamps(generateMarkdownNote(last.day, QualifyingCards,
                                           last.rows.journal, null, last.at))

\* C5 as stated: a second non-forced run over identical source data leaves
\* every note byte-identical, timestamps included.  (Stated for the notes
\* whose created_at reads back as written, so that the created_at defect of
\* C4 plays no part.)
C5_ByteIdentical ==
    (Iterated /\ ~last.force /\ SameSource
       /\ matchCreatedAt(Before) = CreatedAtOf(Before))
      => notes = last.before

\* C5 amended: the second run leaves every note identical apart from the two
\* timestamp lines of the days it rewrites; a complete day is skipped and
\* stays byte-identical; a rewritten day gets the second run's instant as
\* updated_at and, as created_at, what getExistingCreatedAt reads back from
\* the first run's note.
C5_IdenticalButStamps ==
    (Iterated /\ ~last.force /\ SameSource) =>
      /\ OthersUntouched
      /\ sansStamps(After) = sansStamps(Before)
      /\ CompleteThen => last.decision = "skip-complete" /\ notes = last.before
      /\ ~Written => notes = last.before
      /\ Written => /\ UpdatedAtOf(After) = toISOString(last.at)
                    /\ CreatedAtOf(After) = matchCreatedAt(Before)

C5_Witness ==
    /\ Iterated /\ ~last.force /\ SameSource
    /\ last.decision = "update"
    /\ UpdatedAtOf(After) # UpdatedAtOf(Before)
    /\ CreatedAtOf(After) = CreatedAtOf(Before)

\* C6: a day that is not skipped is an update exactly when its note existed
\* when the iteration began, and a creation otherwise (created_at then being
\* the current instant); the matching counter alone goes up by one and the
\* note of that day, and no other, is written.
C6_CreateOrUpdate ==
    Written =>
      /\ (last.decision = "update") <=> Existed
      /\ (last.decision = "create") <=> ~Existed
      /\ updatedCount = last.updated + (IF Existed THEN 1 ELSE 0)
      /\ savedCount = last.saved + (IF Existed THEN 0 ELSE 1)
      /\ skippedCount = last.skipped
      /\ last.decision = "create" => CreatedAtOf(After) = toISOString(last.at)
      /\ After # NoNote
      /\ Field(After, "dayflow_day:") = ToString(last.day)
      /\ OthersUntouched

C6_Witness ==
    /\ last.decision = "create"
    /\ last.saved = 1 /\ savedCount = 2
    /\ CreatedAtOf(After) = toISOString(last.at)

\* C7 as stated: in a non-forced run the current logical day, dates[1], is
\* never skipped as complete and is rewritten when it has data, even when
\* its note exists; every older listed day is complete and, having a note,
\* skipped.
C7_CurrentDayNeverComplete ==
    (Iterated /\ ~last.force) =>
      /\ last.day = dates[1] =>
            /\ last.decision # "skip-complete"
            /\ (Existed /\ ~NoData) => last.decision \in {"update", "error", "fatal"}
      /\ last.day # dates[1] =>
            /\ CompleteThen
            /\ Existed => last.decision = "skip-complete"

\* C7 amended: the current logical day is skipped as complete only when the
\* clock has reached that day's end, Boundary(dates[1] + 1), by the time the
\* loop evaluates it (the run straddles 04:00); before that instant it is
\* never skipped as complete and is rewritten when it has data.  Every older
\* listed day is complete and, having a note, skipped.
C7_CurrentDayUntilBoundary ==
    (Iterated /\ ~last.force) =>
      /\ last.at >= Boundary(dates[1])
      /\ last.day = dates[1] =>
            /\ (last.decision = "skip-complete")
                  <=> (Existed /\ last.at >= Boundary(dates[1] + 1))
            /\ (last.at < Boundary(dates[1] + 1) /\ Existed /\ ~NoData)
                  => last.decision \in {"update", "error", "fatal"}
      /\ last.day # dates[1] =>
            /\ last.at >= Boundary(last.day + 1)
            /\ Existed => last.decision = "skip-complete"

C7_Witness ==
    /\ Iterated /\ ~last.force
    /\ last.day = dates[1] /\ Existed
    /\ last.decision = "update"
    /\ last.at > Boundary(dates[1])

\* The counters are as the iteration found them.
CountedNothing ==
    /\ skippedCount = last.skipped
    /\ savedCount = last.saved
    /\ updatedCount = last.updated

\* The step is one of the running process: the start of a run, an iteration
\* of its loop, or its end.  (The clock and Dayflow leave runVars alone.)
RunStep == runVars' # runVars
StartStep == pc = "idle" /\ pc' = "loop"
LoopStep == pc = "loop" /\ idx <= Len(dates) /\ RunStep

\* C12: a day whose fetch or processing raises an error is counted as
\* skipped, nothing is written for it, and the loop goes on to the next day
\* of the list: the run is still in its loop and has not failed.
C12_DayErrorIsolated ==
    last.decision = "error" =>
      /\ CountedSkipped
      /\ notes = last.before
      /\ pc = "loop" /\ status # "failed"
      /\ idx >= 2 /\ idx <= Len(dates) + 1
      /\ dates[idx - 1] = last.day

C12_Witness ==
    /\ last.decision = "error"
    /\ idx = 2 /\ Len(dates) = 2
    /\ last.rows # DayEmpty
    /\ pc = "loop"

\* C13: when writing a day's note fails the run ends there with a failure
\* status: nothing is written, the day is not counted as skipped (nor as
\* anything else), the loop stays at that day, and while the run is in this
\* state no note changes.
C13_WriteFailureFatal ==
    /\ [](last.decision = "fatal" =>
            /\ status = "failed" /\ pc = "idle"
            /\ notes = last.before
            /\ CountedNothing
            /\ idx <= Len(dates) /\ dates[idx] = last.day)
    /\ [][status = "failed" =>
            /\ notes' = notes
            /\ last'.decision \in {"fatal", "none"}]_vars

C13_Witness ==
    /\ last.decision = "fatal"
    /\ status = "failed"
    /\ idx = 1 /\ Len(dates) = 2

\* C14: no step of a run (start with its connection test, a day's fetch,
\* skip, create, update, error or fatal abort, the end of the run) changes
\* the rows of the Dayflow database, with or without force.
C14_DatabaseReadOnly ==
    [][RunStep => db' = db]_vars

C14_Witness ==
    /\ last.decision = "create" /\ last.force
    /\ last.rows.cards # <<>>
    /\ rowsOf(db, last.day) = last.rows
    /\ runs = MaxRuns

\* C15: the loop takes the days one at a time in the order of the list
\* calculateDateRange returned, newest first; the listed days are distinct
\* and so are their file names, and an iteration touches no file but its
\* own, so no file is the target of two iterations of a run.
C15_OneDayAtATimeInOrder ==
    /\ [](/\ \A i, j \in 1..Len(dates) :
                i < j => /\ dates[j] < dates[i]
                         /\ generateFilename(dates[i]) # generateFilename(dates[j])
          /\ Iterated =>
                /\ OthersUntouched
                /\ last.day = dates[IF last.decision = "fatal" THEN idx ELSE idx - 1])
    /\ [][/\ StartStep => dates' = calculateDateRange(DAYS', now) /\ idx' = 1
          /\ LoopStep => /\ last'.day = dates[idx]
                           /\ idx' \in {idx, idx + 1}
                           /\ dates' = dates]_vars

C15_Witness ==
    /\ pc = "loop" /\ Len(dates) = 2 /\ idx = 3
    /\ last.day = dates[2] /\ last.day < dates[1]
    /\ Written /\ After # Before

\* The days counted so far by the running loop.
Counted == savedCount + updatedCount + skippedCount

\* C22: while the loop runs, created + updated + skipped is the number of
\* days handled, so it is the length of the list when the loop ends and the
\* summary is printed; an iteration that does not abort the run raises
\* exactly one counter by one (an error counts as skipped), and it raises
\* created or updated exactly when it writes the note.
C22_RunAccounting ==
    /\ [](pc = "loop" =>
            /\ Counted = idx - 1
            /\ idx > Len(dates) => Counted = Len(dates))
    /\ [][LoopStep =>
            /\ pc' = "loop" =>
                  /\ Counted' = Counted + 1
                  /\ savedCount' \in {savedCount, savedCount + 1}
                  /\ updatedCount' \in {updatedCount, updatedCount + 1}
                  /\ skippedCount' \in {skippedCount, skippedCount + 1}
                  /\ skippedCount' = skippedCount <=>
                        last'.decision \in {"create", "update"}
            /\ last'.decision \in {"create", "update"} <=>
                  savedCount' + updatedCount' = savedCount + updatedCount + 1
            /\ notes' # notes => last'.decision \in {"create", "update"}
            /\ pc' # "loop" =>
                  Counted' = Counted /\ notes' = notes /\ status' = "failed"]_vars

C22_Witness ==
    /\ pc = "loop" /\ Len(dates) = 2 /\ idx > Len(dates)
    /\ savedCount = 1 /\ updatedCount = 0 /\ skippedCount = 1
    /\ last.decision = "error"

(* =================== properties of the date functions ================== *)
\* C8: isDayComplete(day) is true exactly when the clock is at or past the
\* 04:00 boundary of the next calendar date: false throughout the day's own
\* window, true at the boundary itself.
C8_CompleteIffPastNextBoundary ==
    probe.op = "isDayComplete" =>
      /\ probe.complete <=> probe.instant >= Boundary(probe.day + 1)
      /\ (Boundary(probe.day) <= probe.instant
            /\ probe.instant < Boundary(probe.day + 1)) => ~probe.complete
      /\ probe.instant = Boundary(probe.day + 1) => probe.complete

C8_Witness ==
    /\ probe.op = "isDayComplete"
    /\ probe.instant = Boundary(probe.day + 1)
    /\ probe.complete

\* C9: an instant before 04:00 on calendar date D belongs to logical day
\* D - 1; an instant at or after 04:00 on D, 04:00 itself included, to D.
C9_ResolveDay ==
    probe.op = "getDayInfoFor4AMBoundary" =>
      LET D == probe.instant \div HoursPerDay
      IN  /\ probe.instant < Boundary(D) => probe.info.dayString = D - 1
          /\ probe.instant >= Boundary(D) => probe.info.dayString = D

C9_Witness ==
    /\ probe.op = "getDayInfoFor4AMBoundary"
    /\ probe.instant = Boundary(2)
    /\ probe.info.dayString = 2

\* C10: the day returned starts at its own 04:00 boundary, ends at the next
\* one, and the instant lies in [startOfDay, endOfDay).
C10_DayInterval ==
    probe.op = "getDayInfoFor4AMBoundary" =>
      /\ probe.info.startOfDay = Boundary(probe.info.dayString)
      /\ probe.info.endOfDay = Boundary(probe.info.dayString + 1)
      /\ probe.info.startOfDay <= probe.instant
      /\ probe.instant < probe.info.endOfDay

C10_Witness ==
    /\ probe.op = "getDayInfoFor4AMBoundary"
    /\ probe.instant = 2 * HoursPerDay + 2
    /\ probe.info = [dayString |-> 1, startOfDay |-> Boundary(1),
                     endOfDay |-> Boundary(2)]

\* C11: calculateDateRange(days) returns at most days dayStrings, no two of
\* them equal, the first the logical day of the reference instant, each one
\* a strictly earlier date than the one before it.
C11_DateRange ==
    probe.op = "calculateDateRange" =>
      /\ Len(probe.range) <= probe.days
      /\ Len(probe.range) >= 1
      /\ probe.range[1] = getDayInfoFor4AMBoundary(probe.instant).dayString
      /\ \A i, j \in 1..Len(probe.range) :
            i < j => probe.range[j] < probe.range[i]

C11_Witness ==
    /\ probe.op = "calculateDateRange"
    /\ probe.days = 3
    /\ probe.instant = Boundary(3) - 1
    /\ probe.range = <<2, 1, 0>>

(* ================== properties of one day and its data ================= *)
\* A failed-processing record: category System with a title holding
\* "Processing failed" or "Error", or with subcategory Error.
FailedProcessing(card) ==
    /\ card.category = <<"System">>
    /\ \/ \E i \in 1..Len(card.title) : card.title[i] \in {"Processing failed", "Error"}
       \/ card.subcategory = <<"Error">>

NotFailedProcessing(card) == ~FailedProcessing(card)

\* The iteration got past the skip of a complete day and its fetch worked.
Fetched ==
    /\ probe.op = "syncDay"
    /\ ~probe.fetchFails
    /\ probe.result.decision # "skip-complete"

\* C16: the cards tested for "no data" and rendered into the note are the
\* fetched cards without the failed-processing ones: a day with nothing but
\* failed cards and no journal entry is skip-empty, a day with a journal
\* entry and no qualifying card is still written, and what is written counts
\* and renders the qualifying cards only.
C16_FailedCardsExcluded ==
    Fetched =>
      LET qualifying == SelectSeq(probe.cards, NotFailedProcessing)
          decision == probe.result.decision
      IN  /\ decision = "skip-empty" <=> (qualifying = <<>> /\ probe.journal = <<>>)
          /\ (qualifying = <<>> /\ probe.journal # <<>> /\ ~probe.writeFails)
                => decision \in {"create", "update"}
          /\ decision \in {"create", "update"} =>
                /\ Field(probe.result.text, "total_cards:") = ToString(Len(qualifying))
                /\ sansStamps(probe.result.text)
                     = sansStamps(generateMarkdownNote(ProbeDay, qualifying,
                                      probe.journal, null, probe.clock))

C16_Witness ==
    /\ Fetched
    /\ probe.cards = <<CardFailed>> /\ probe.journal # <<>>
    /\ probe.result.decision = "create"
    /\ Field(probe.result.text, "total_cards:") = "0"

\* The metadata of the card is absent or cannot be parsed.
Unreadable(card) == card.metadata.kind \in {"absent", "garbage"}
Readable(card) == ~Unreadable(card)

\* C17: a card whose metadata is absent or unparsable adds no distraction
\* and no application entry, the distractions and application usage of the
\* day are those of its other cards, and the day is written all the same:
\* neither skipped nor counted as an error.
C17_MetadataFailureLocal ==
    /\ probe.op = "aggregate" =>
          LET others == SelectSeq(probe.cards, Readable)
          IN  /\ probe.usage = aggregateAppUsage(others)
              /\ probe.distractions = extractAllDistractions(others)
              /\ others = <<>> => probe.usage = <<>> /\ probe.distractions = <<>>
    /\ (Fetched /\ ~probe.writeFails
          /\ \E i \in 1..Len(probe.cards) :
                Unreadable(probe.cards[i]) /\ NotFailedProcessing(probe.cards[i]))
         => /\ probe.result.decision = (IF probe.existed THEN "update" ELSE "create")
            /\ Field(probe.result.text, "total_cards:")
                 = ToString(Len(SelectSeq(probe.cards, NotFailedProcessing)))

C17_Witness ==
    /\ Fetched
    /\ Len(probe.cards) = 2
    /\ probe.cards[1].metadata = BadMetadata
    /\ probe.cards[2].metadata = JsonMetadata("A", "B", <<Chat>>)
    /\ probe.result.decision = "update"
    /\ <<"-", "Chat">> \in {probe.result.text[n] : n \in 1..Len(probe.result.text)}

\* round((end - start) / 60), half up: the integer q with
\* q <= (end - start) / 60 + 1/2 < q + 1.
RoundedMinutes(card) ==
    LET seconds == card.end_ts - card.start_ts
    IN  CHOOSE q \in -5..50 : 60 * q <= seconds + 30 /\ seconds + 30 < 60 * (q + 1)

RECURSIVE SumOfRoundedMinutes(_)
SumOfRoundedMinutes(cards) ==
    IF cards = <<>> THEN 0
    ELSE RoundedMinutes(Head(cards)) + SumOfRoundedMinutes(Tail(cards))

\* C18: calculateTotalMinutes is the sum of the cards' minutes, each card
\* rounded half up on its own: a 90-second card counts 2 minutes and two of
\* them 4, not the 3 of their rounded sum.
C18_PerRecordRounding ==
    probe.op = "calculateTotalMinutes" =>
      /\ probe.total = SumOfRoundedMinutes(probe.cards)
      /\ \A i \in 1..Len(probe.cards) :
            (probe.cards[i].end_ts - probe.cards[i].start_ts = 90)
              => calculateTotalMinutes(<<probe.cards[i]>>) = 2

C18_Witness ==
    /\ probe.op = "calculateTotalMinutes"
    /\ Len(probe.cards) = 2
    /\ \A i \in 1..2 : probe.cards[i].start_ts = 0 /\ probe.cards[i].end_ts = 90
    /\ probe.total = 4

\* C19: calculateTotalMinutes gives the same total for a card list and for
\* every reordering of it.
C19_OrderInvariant ==
    probe.op = "calculateTotalMinutes" => probe.shuffledTotal = probe.total

C19_Witness ==
    /\ probe.op = "calculateTotalMinutes"
    /\ Len(probe.cards) = 3
    /\ probe.shuffled = <<probe.cards[3], probe.cards[1], probe.cards[2]>>
    /\ probe.cards[1].end_ts = 29 /\ probe.cards[2].end_ts = 90
    /\ probe.cards[3].end_ts = 10
    /\ probe.total = 1

\* The non-empty application slots of a card list in order of appearance
\* (card by card, primary before secondary), each with its card's minutes.
RECURSIVE SlotsOf(_)
SlotsOf(cards) ==
    IF cards = <<>> THEN <<>>
    ELSE LET card == Head(cards)
             named(slot) == slot.app # ""
             slots == IF card.metadata.kind = "json"
                      THEN << [app |-> card.metadata.primary,
                               minutes |-> RoundedMinutes(card)],
                              [app |-> card.metadata.secondary,
                               minutes |-> RoundedMinutes(card)] >>
                      ELSE <<>>
         IN  SelectSeq(slots, named) \o SlotsOf(Tail(cards))

RECURSIVE SumOfMinutes(_)
SumOfMinutes(slots) ==
    IF slots = <<>> THEN 0 ELSE Head(slots).minutes + SumOfMinutes(Tail(slots))

FirstAppearance(slots, app) ==
    CHOOSE i \in 1..Len(slots) :
        slots[i].app = app /\ \A j \in 1..(i - 1) : slots[j].app # app

\* C20 as stated: aggregateAppUsage lists every application named in a
\* slot once, with sessions the number of slots naming it and totalMinutes
\* the sum of those cards' minutes, larger totals first and equal totals in
\* order of first appearance.
C20_AppUsage ==
    probe.op = "aggregate" =>
      LET slots == SlotsOf(probe.cards)
          usage == probe.usage
          of(app) == LET named(slot) == slot.app = app IN SelectSeq(slots, named)
      IN  /\ {usage[i].app : i \in 1..Len(usage)}
               = {slots[i].app : i \in 1..Len(slots)}
          /\ \A i, j \in 1..Len(usage) : usage[i].app = usage[j].app => i = j
          /\ \A i \in 1..Len(usage) :
                /\ usage[i].sessions = Len(of(usage[i].app))
                /\ usage[i].totalMinutes = SumOfMinutes(of(usage[i].app))
          /\ \A i, j \in 1..Len(usage) :
                i < j =>
                  \/ usage[i].totalMinutes > usage[j].totalMinutes
                  \/ /\ usage[i].totalMinutes = usage[j].totalMinutes
                     /\ FirstAppearance(slots, usage[i].app)
                          < FirstAppearance(slots, usage[j].app)

\* The label a card is counted under.
LabelOf(card) == IF card.category # <<>> THEN card.category ELSE <<"Uncategorized">>

FirstWith(cards, label) ==
    CHOOSE i \in 1..Len(cards) :
        LabelOf(cards[i]) = label /\ \A j \in 1..(i - 1) : LabelOf(cards[j]) # label

\* C21 as stated: the breakdown lists every category label once, in the
\* order the labels are first met in the card list, each with the sum of
\* the minutes of its cards and with the percentage
\* round(100 * minutes / total minutes), halves up.
C21_CategoryBreakdown ==
    probe.op = "categoryPercentages" =>
      LET cards == probe.cards
          breakdown == probe.breakdown
          with(label) == LET labelled(card) == LabelOf(card) = label
                         IN  SelectSeq(cards, labelled)
          total == SumOfRoundedMinutes(cards)
      IN  /\ {breakdown[i].cat : i \in 1..Len(breakdown)}
               = {LabelOf(cards[i]) : i \in 1..Len(cards)}
          /\ \A i, j \in 1..Len(breakdown) :
                i < j => FirstWith(cards, breakdown[i].cat)
                           < FirstWith(cards, breakdown[j].cat)
          /\ \A i \in 1..Len(breakdown) :
                LET minutes == SumOfRoundedMinutes(with(breakdown[i].cat))
                IN  /\ breakdown[i].numeric
                    /\ breakdown[i].mins = minutes
                    /\ total > 0 =>
                          breakdown[i].pct
                            = ToString((200 * minutes + total) \div (2 * total))

====
